---- MODULE Spec2Model ----
(***************************************************************************)
(* A model of evd.py, the web display for NEXT calibration runs: the two   *)
(* StringIO buffers that replace sys.stdout / sys.stderr, and the three    *)
(* Dash callbacks update_metrics (log poll), load_times (dataset probe)    *)
(* and calibrate (job trigger), served by the threaded Flask server that   *)
(* app.run_server starts.                                                  *)
(*                                                                         *)
(* Python values are modelled as sequences of tokens: a str is the         *)
(* sequence of its tokens (<<>> is ""), and None, no_update, True and      *)
(* False are one-token sequences of their own.  A 'datetime-local' string  *)
(* "YYYY-mm-ddTHH:MM:SS" is <<"dt", w>>, w the wall-clock second it names. *)
(***************************************************************************)
EXTENDS Integers, Sequences, FiniteSets, TLC

VARIABLES
    my_stdout,        \* StringIO that replaces sys.stdout
    my_stderr,        \* StringIO that replaces sys.stderr
    log,              \* 'live-update-text'.value, the text the client shows
    n_intervals,      \* 'interval-component'.n_intervals
    ppc,              \* update_metrics: position of the request in flight
    p_log,            \* update_metrics: its argument log
    p_out,            \* update_metrics: last my_stdout.getvalue() it read
    p_ret,            \* update_metrics: the text it returns
    p_busy,           \* update_metrics: map_builder was running when it began
    observed,         \* the concatenation the last finished poll computed
    wrote,            \* a buffer was written since the running poll began
    quiet,            \* finished polls in a row with no buffer write
    start_date_time,  \* 'start-date-time'.value
    end_date_time,    \* 'end-date-time'.value
    fnf_is_open,      \* 'alert-file-not-found'.is_open
    fnf_children,     \* 'alert-file-not-found'.children
    err_is_open,      \* 'alert-error'.is_open
    err_children,     \* 'alert-error'.children
    figure,           \* 'calibration-figure'.figure
    tz,               \* the local time zone of the server process
    icaro,            \* whether os.environ holds ICARO
    lpc,              \* load_times: position of the request in flight
    l_path,           \* load_times: its argument input_filename
    l_times,          \* load_times: the timestamps data['DST']['Events']['time']
    l_ret,            \* load_times: the tuple it returns, or Raised
    n_loads,          \* clicks on 'button-load'
    pc,               \* calibrate: position of each worker thread
    arg,              \* calibrate: the arguments of each thread's request
    config,           \* calibrate: the local config (text, then parsed)
    c_err,            \* calibrate: the exception caught at line 300/303
    c_ret,            \* calibrate: the tuple it returns
    config_conf,      \* the file config.conf
    calls,            \* invocations of map_builder so far
    status,           \* outcome of the last calibrate call that ended
    n_clicks,         \* clicks on 'button-calibrate'
    n_clears          \* clicks on 'button-clears'

logVars  == <<my_stdout, my_stderr>>
pollRest == <<log, n_intervals, ppc, p_log, p_out, p_ret, p_busy, observed>>
pollVars == <<pollRest, wrote, quiet>>
timeVars == <<start_date_time, end_date_time>>
alertVars == <<fnf_is_open, fnf_children, err_is_open, err_children, figure>>
envVars  == <<tz, icaro>>
clearVars == <<n_clears>>
loadVars == <<lpc, l_path, l_times, l_ret, n_loads>>
calVars  == <<pc, arg, config, c_err, c_ret, config_conf, calls, status, n_clicks>>
vars == <<logVars, pollVars, timeVars, alertVars, envVars, clearVars, loadVars, calVars>>

-----------------------------------------------------------------------------
(* Bounds of the model.                                                    *)

MaxWrites == 3       \* tokens written to the buffers by StdoutWrite/StderrWrite
MaxPolls == 3        \* ticks of the interval component
MaxLoads == 2        \* clicks on "Load input file"
MaxClicks == 1       \* clicks on "Calibrate" served one at a time
NumWorkers == 2      \* request threads, and requests that can overlap
MaxEvents == 2       \* events of a dataset
MaxTick == 5         \* largest event timestamp, in ticks
TicksPerSecond == 2  \* resolution of an event timestamp below one second
MaxClears == 1       \* clicks on "Clear log"
MaxRequests == 4     \* requests of a session of the whole page

-----------------------------------------------------------------------------
(* Python values.                                                          *)

None == <<"None">>
no_update == <<"no_update">>
True == <<"True">>
False == <<"False">>
Raised == <<"raised">>

\* A test for None alone, which lets "" through.
NotNone(x) == x # None

\* Python truthiness of a str-or-None value: `if x` / `not x`.
Truthy(x) == x # None /\ x # <<>>

IsPrefix(s, t) == Len(s) <= Len(t) /\ SubSeq(t, 1, Len(s)) = s

\* s occurs in t as a contiguous run of tokens.
Contains(t, s) ==
    \E i \in 0..(Len(t) - Len(s)) : SubSeq(t, i + 1, i + Len(s)) = s

\* str(x), as print() and f-strings render a value.
Str(x) == IF Len(x) = 2 /\ x[1] = "dt" THEN <<"dt", ToString(x[2])>> ELSE x

\* What print(a, b, ...) writes: the pieces and the newline.
Printed(pieces) == pieces \o <<"\n">>

-----------------------------------------------------------------------------
(* Log sink: lines 159-162.                                                *)

Fragments == {<<"A">>, <<"B">>}

\* Some code of the process prints s: sys.stdout is my_stdout.
StdoutWrite(s) ==
    /\ Len(my_stdout) + Len(my_stderr) < MaxWrites
    /\ my_stdout' = my_stdout \o s
    /\ wrote' = TRUE
    /\ quiet' = 0
    /\ UNCHANGED <<my_stderr, pollRest>>
    /\ UNCHANGED <<timeVars, alertVars, envVars, clearVars, loadVars, calVars>>

\* Some code of the process writes s to sys.stderr, which is my_stderr.
StderrWrite(s) ==
    /\ Len(my_stdout) + Len(my_stderr) < MaxWrites
    /\ my_stderr' = my_stderr \o s
    /\ wrote' = TRUE
    /\ quiet' = 0
    /\ UNCHANGED <<my_stdout, pollRest>>
    /\ UNCHANGED <<timeVars, alertVars, envVars, clearVars, loadVars, calVars>>

\* A clear that empties the two buffers on the server.
ClearLogTruncates ==
    /\ n_clears < MaxClears
    /\ n_clears' = n_clears + 1
    /\ my_stdout' = <<>>
    /\ my_stderr' = <<>>
    /\ UNCHANGED <<pollVars, timeVars, alertVars, envVars, loadVars, calVars>>

\* A click on "Clear log" (line 151): no callback of the application has
\* 'button-clears' as an Input, so the click sends no request and changes
\* nothing but the button's own click count.
ClearLog ==
    /\ n_clears < MaxClears
    /\ n_clears' = n_clears + 1
    /\ UNCHANGED <<logVars, pollVars, timeVars, alertVars, envVars, loadVars, calVars>>

-----------------------------------------------------------------------------
(* update_metrics: lines 164-180.  Each getvalue() is one atomic read; the *)
(* handler reads both buffers at line 178 and again at line 179 or 180.    *)

\* Only the newest token of the two buffers.
CurrentNewest(out, err) ==
    IF out \o err = <<>> THEN <<>> ELSE <<(out \o err)[Len(out \o err)]>>

\* my_stdout.getvalue()+my_stderr.getvalue()
Current(out, err) == out \o err

\* Line 178: log != current
Differs(text, current) == text # current

\* Line 179: log + current
Appended(text, current) == text \o current

\* The positions of calibrate inside the call of map_builder.
InEngine == {"engine", "engine2"}

Workers == 1..NumWorkers

\* A server with one thread: a request waits while calibrate is in service.
ServedInTurn == \A t \in Workers : pc[t] = "idle"

\* app.run_server starts Flask's threaded server: each request is served on
\* a thread of its own, whatever the other requests in service are doing.
ServedAtOnce == TRUE

pollFrame == UNCHANGED <<logVars, timeVars, alertVars, envVars, clearVars, loadVars, calVars>>

\* The interval fires: the client sends the text it shows and n_intervals.
\* Line 177: `if log` chooses the path.
PollRequest ==
    /\ ppc = "idle"
    /\ n_intervals < MaxPolls
    /\ n_intervals' = n_intervals + 1
    /\ p_log' = log
    /\ ppc' = IF Truthy(log) THEN "l178out" ELSE "l180out"
    /\ p_busy' = (\E t \in Workers : pc[t] \in InEngine)
    /\ wrote' = FALSE
    /\ UNCHANGED <<log, p_out, p_ret, observed, quiet>>
    /\ pollFrame

\* Line 178, my_stdout.getvalue()
Poll178out ==
    /\ ppc = "l178out"
    /\ ServedAtOnce
    /\ p_out' = my_stdout
    /\ ppc' = "l178err"
    /\ UNCHANGED <<log, n_intervals, p_log, p_ret, p_busy, observed, wrote, quiet>>
    /\ pollFrame

\* Line 178, my_stderr.getvalue() and the comparison
Poll178err ==
    /\ ppc = "l178err"
    /\ ServedAtOnce
    /\ ppc' = IF Differs(p_log, Current(p_out, my_stderr)) THEN "l179out" ELSE "l180out"
    /\ p_out' = <<>>
    /\ UNCHANGED <<log, n_intervals, p_log, p_ret, p_busy, observed, wrote, quiet>>
    /\ pollFrame

\* Line 179, my_stdout.getvalue()
Poll179out ==
    /\ ppc = "l179out"
    /\ ServedAtOnce
    /\ p_out' = my_stdout
    /\ ppc' = "l179err"
    /\ UNCHANGED <<log, n_intervals, p_log, p_ret, p_busy, observed, wrote, quiet>>
    /\ pollFrame

\* Line 179, my_stderr.getvalue() and the return
Poll179err ==
    /\ ppc = "l179err"
    /\ ServedAtOnce
    /\ p_ret' = Appended(p_log, Current(p_out, my_stderr))
    /\ observed' = Current(p_out, my_stderr)
    /\ ppc' = "ret"
    /\ p_out' = <<>>
    /\ UNCHANGED <<log, n_intervals, p_log, p_busy, wrote, quiet>>
    /\ pollFrame

\* Line 180, my_stdout.getvalue()
Poll180out ==
    /\ ppc = "l180out"
    /\ ServedAtOnce
    /\ p_out' = my_stdout
    /\ ppc' = "l180err"
    /\ UNCHANGED <<log, n_intervals, p_log, p_ret, p_busy, observed, wrote, quiet>>
    /\ pollFrame

\* Line 180, my_stderr.getvalue() and the return
Poll180err ==
    /\ ppc = "l180err"
    /\ ServedAtOnce
    /\ p_ret' = Current(p_out, my_stderr)
    /\ observed' = Current(p_out, my_stderr)
    /\ ppc' = "ret"
    /\ p_out' = <<>>
    /\ UNCHANGED <<log, n_intervals, p_log, p_busy, wrote, quiet>>
    /\ pollFrame

\* The response reaches the client: Output('live-update-text', 'value').
PollResponse ==
    /\ ppc = "ret"
    /\ log' = p_ret
    /\ ppc' = "idle"
    /\ p_log' = None
    /\ p_ret' = None
    /\ quiet' = IF wrote THEN 0 ELSE IF quiet < 2 THEN quiet + 1 ELSE 2
    /\ UNCHANGED <<n_intervals, p_out, p_busy, observed, wrote>>
    /\ pollFrame

\* The steps of a poll request that the server has received.
PollProgress ==
    \/ Poll178out
    \/ Poll178err
    \/ Poll179out
    \/ Poll179err
    \/ Poll180out
    \/ Poll180err
    \/ PollResponse

update_metrics ==
    \/ PollRequest
    \/ Poll178out
    \/ Poll178err
    \/ Poll179out
    \/ Poll179err
    \/ Poll180out
    \/ Poll180err
    \/ PollResponse

-----------------------------------------------------------------------------
(* load_times: lines 183-224.                                              *)

NumLoadOutputs == 4

\* The paths a request can name, and what h5py.File finds there.
Paths == {None, <<>>, <<"missing.h5">>, <<"dir">>, <<"notes.txt">>,
          <<"other.h5">>, <<"dst.h5">>}

\* What line 201-202 meets at a path: no file (FileNotFoundError), a
\* directory (IsADirectoryError), a file that is not HDF5 (OSError), an
\* HDF5 file without the DST group (KeyError), or a dataset.
FileKind(path) ==
    CASE path = <<"missing.h5">> -> "FileNotFoundError"
      [] path = <<"dir">> -> "IsADirectoryError"
      [] path = <<"notes.txt">> -> "OSError"
      [] path = <<"other.h5">> -> "KeyError"
      [] OTHER -> "dataset"

\* The timestamp columns a dataset can hold, in ticks.
RECURSIVE SeqsUpTo(_, _)
SeqsUpTo(S, n) ==
    IF n = 0 THEN {<<>>}
    ELSE LET shorter == SeqsUpTo(S, n - 1)
         IN  shorter \cup {Append(q, x) : q \in shorter, x \in S}

TimeColumns == SeqsUpTo(0..MaxTick, MaxEvents)

\* Python's min(times) and max(times): one pass, keeping the best so far.
\* The first timestamp taken for the least.
PyMinFirst(T) == T[1]

RECURSIVE PyMin(_)
PyMin(T) ==
    IF Len(T) = 1 THEN T[1]
    ELSE LET m == PyMin(SubSeq(T, 1, Len(T) - 1))
         IN  IF T[Len(T)] < m THEN T[Len(T)] ELSE m

RECURSIVE PyMax(_)
PyMax(T) ==
    IF Len(T) = 1 THEN T[1]
    ELSE LET m == PyMax(SubSeq(T, 1, Len(T) - 1))
         IN  IF T[Len(T)] > m THEN T[Len(T)] ELSE m

\* The UTC offset of local time at the whole second sec, in seconds.  Zone
\* "dst" leaves daylight-saving time at second 2: the clocks go back by 2.
UtcOffset(zone, sec) == IF zone = "dst" /\ sec < 2 THEN 2 ELSE 0

\* datetime.fromtimestamp(t): the naive local time of the instant t, in
\* ticks of wall-clock time.
FromTimestamp(zone, t) ==
    t + UtcOffset(zone, t \div TicksPerSecond) * TicksPerSecond

\* .strftime('%Y-%m-%dT%H:%M:%S'): the sub-second part is dropped.
Strftime(local) == <<"dt", local \div TicksPerSecond>>

\* Lines 203-206.
StartTime(zone, T) == Strftime(FromTimestamp(zone, PyMin(T)))
EndTime(zone, T) == Strftime(FromTimestamp(zone, PyMax(T)))

\* Lines 195-198.
LoadReturnMissingInput == <<True, <<"You need to specify an input file">>>>

\* Lines 209-213.
LoadReturnNotFound(path) ==
    <<True, <<"File ">> \o path \o <<" not found">>, no_update, no_update>>

\* A directory answered by clearing both time fields.
LoadReturnDirectoryClears == <<no_update, False, None, None>>

\* Line 215.
LoadReturnDirectory == <<no_update, False, no_update, no_update>>

\* Lines 217-222.
LoadReturnInvalid(path) ==
    <<True, <<"File ">> \o path \o <<" is not a valid file">>, no_update, no_update>>

\* Line 224.
LoadReturnOk(zone, T) == <<False, no_update, StartTime(zone, T), EndTime(zone, T)>>

\* The value load_times returns, or Raised when an exception leaves it:
\* KeyError at line 202, ValueError of min() of an empty column at line 203.
LoadResult(path, zone, T) ==
    IF ~Truthy(path) THEN LoadReturnMissingInput
    ELSE CASE FileKind(path) = "FileNotFoundError" -> LoadReturnNotFound(path)
           [] FileKind(path) = "IsADirectoryError" -> LoadReturnDirectory
           [] FileKind(path) = "OSError" -> LoadReturnInvalid(path)
           [] FileKind(path) = "KeyError" -> Raised
           [] OTHER -> IF T = <<>> THEN Raised ELSE LoadReturnOk(zone, T)

\* Line 208: print(input_filename, "not found")
LoadPrinted(path) ==
    IF Truthy(path) /\ FileKind(path) = "FileNotFoundError"
    THEN Printed(path \o <<" ", "not found">>)
    ELSE <<>>

\* A click on "Load input file": the handler runs on the path the client
\* sends and the timestamps the file holds at that time.
LoadClick(path, T) ==
    /\ lpc = "idle"
    /\ n_loads < MaxLoads
    /\ n_loads' = n_loads + 1
    /\ l_path' = path
    /\ l_times' = T
    /\ l_ret' = LoadResult(path, tz, T)
    /\ my_stdout' = my_stdout \o LoadPrinted(path)
    /\ wrote' = (wrote \/ LoadPrinted(path) # <<>>)
    /\ quiet' = IF LoadPrinted(path) # <<>> THEN 0 ELSE quiet
    /\ lpc' = "ret"
    /\ UNCHANGED <<my_stderr, pollRest, timeVars, alertVars, envVars, clearVars, calVars>>

\* A response updates an output unless the handler returned no_update.
Updated(old, new) == IF new = no_update THEN old ELSE new

\* The framework takes the returned value: a value that is not one item per
\* declared Output is rejected (the request fails, like a raised exception,
\* and the client updates nothing); otherwise the client applies it.
LoadResponse ==
    /\ lpc = "ret"
    /\ lpc' = "idle"
    /\ IF Len(l_ret) = NumLoadOutputs
       THEN /\ fnf_is_open' = Updated(fnf_is_open, l_ret[1])
            /\ fnf_children' = Updated(fnf_children, l_ret[2])
            /\ start_date_time' = Updated(start_date_time, l_ret[3])
            /\ end_date_time' = Updated(end_date_time, l_ret[4])
       ELSE UNCHANGED <<fnf_is_open, fnf_children, start_date_time, end_date_time>>
    /\ l_path' = None
    /\ l_times' = <<>>
    /\ l_ret' = None
    /\ UNCHANGED <<err_is_open, err_children, figure, n_loads>>
    /\ UNCHANGED <<logVars, pollVars, envVars, clearVars, calVars>>

\* The paths at which line 202 reads a timestamp column.
Datasets == {path \in Paths : Truthy(path) /\ FileKind(path) = "dataset"}

load_times ==
    \/ \E path \in Paths \ Datasets : LoadClick(path, <<>>)
    \/ \E path \in Datasets, T \in TimeColumns : LoadClick(path, T)
    \/ LoadResponse

-----------------------------------------------------------------------------
(* calibrate: lines 227-359.  One step per statement that reads or writes  *)
(* state shared between requests (the buffers, config.conf, the engine);   *)
(* the statements between two such steps belong to the later one.          *)

NumCalibrateOutputs == 5

\* What a request can carry in State("config"), State("input-filename"),
\* State("start-date-time") and State("end-date-time").
ConfigTexts == {<<"cfgA">>, <<"cfgB">>, <<"junk">>}
CalPaths == {None, <<>>, <<"dst.h5">>}
TimeInputs == {None, <<"junk">>, <<"dt", 1>>, <<"dt", 2>>}

\* The exceptions map_builder and read_maps can raise: a ValueError, or
\* another Exception (here a KeyError), each with its text.
EngineErrors == [cls : {"ValueError", "KeyError"}, text : {<<"e1">>, <<"e2">>}]

NoArg == [config |-> None, input_filename |-> None,
          start_time |-> None, end_time |-> None]

NoError == [cls |-> "none", text |-> <<>>]

NoConfig == [src |-> None, time_start |-> None, time_end |-> None, file_in |-> None]

EmptyFigure == <<"empty figure">>

\* Lines 306-356: the 2x2 figure of the maps read from map.h5.
MapFigure == <<"figure", "map.h5">>

\* configure() rejects a text it cannot parse.
Parses(text) == ~Contains(text, <<"junk">>)

\* ciso8601.parse_datetime(x): TypeError for None, ValueError for a string
\* that is no datetime.
IsDatetime(x) == Len(x) = 2 /\ x[1] = "dt"

\* time.mktime(parse_datetime(x).timetuple()): the instants whose local
\* time is the wall-clock second w (two of them in a repeated hour).
Mktime(zone, w) == {e \in (w - 2)..w : e + UtcOffset(zone, e) = w}

\* A write that never reaches the file.
NotWritten(file, text) == file

\* A file opened with "w" writes from offset 0.
WrittenAtStart(file, text) == text \o SubSeq(file, Len(text) + 1, Len(file))

\* Lines 246-253.
CalReturnInputMissing ==
    <<True, <<"You need to specify an input file">>,
      no_update, no_update, no_update, no_update>>

\* Line 302.
CalReturnInputError(path) ==
    <<True, <<"Impossible to open ">> \o path \o <<" ">>,
      False, no_update, no_update, no_update>>

\* Line 304.
CalReturnGenericError(text) ==
    <<False, no_update, True, text, no_update, no_update>>

\* Line 359.
CalReturnOk(fig) == <<False, no_update, no_update, no_update, fig>>

\* The clause for Exception tried first: it takes every exception.
HandlerGenericFirst(cls) == "ret304"

\* Lines 300-304: the except clause an exception of class cls reaches.
Handler(cls) == IF cls = "ValueError" THEN "l301" ELSE "ret304"

\* A print that replaces what the buffer held.
CalPrintRewrites(s) ==
    /\ my_stdout' = s
    /\ wrote' = TRUE
    /\ quiet' = 0
    /\ UNCHANGED <<my_stderr, pollRest>>

\* A print of the calibrate thread: sys.stdout is my_stdout.
CalPrint(s) ==
    /\ my_stdout' = my_stdout \o s
    /\ wrote' = TRUE
    /\ quiet' = 0
    /\ UNCHANGED <<my_stderr, pollRest>>

calFrame == UNCHANGED <<timeVars, alertVars, envVars, clearVars, loadVars>>

\* A click on "Calibrate": the request reaches a free thread.  Threads are
\* interchangeable, so the lowest free one takes it.
CalibrateClick(t, c, path, st, en) ==
    /\ ServedAtOnce
    /\ pc[t] = "idle"
    /\ \A u \in Workers : u < t => pc[u] # "idle"
    /\ n_clicks' = n_clicks + 1
    /\ arg' = [arg EXCEPT ![t] = [config |-> c, input_filename |-> path,
                                  start_time |-> st, end_time |-> en]]
    /\ pc' = [pc EXCEPT ![t] = "l245"]
    /\ UNCHANGED <<config, c_err, c_ret, config_conf, calls, status>>
    /\ UNCHANGED <<logVars, pollVars>>
    /\ calFrame

\* Lines 245-261: the check of input_filename, then os.environ['ICARO'].
Cal245(t) ==
    /\ pc[t] = "l245"
    /\ IF ~Truthy(arg[t].input_filename)
       THEN /\ c_ret' = [c_ret EXCEPT ![t] = CalReturnInputMissing]
            /\ pc' = [pc EXCEPT ![t] = "ret246"]
       ELSE /\ pc' = [pc EXCEPT ![t] = IF icaro THEN "l263" ELSE "raised"]
            /\ UNCHANGED c_ret
    /\ UNCHANGED <<arg, config, c_err, config_conf, calls, status, n_clicks>>
    /\ UNCHANGED <<logVars, pollVars>>
    /\ calFrame

\* Line 263: print('Input dst: ', input_filename)
Cal263(t) ==
    /\ pc[t] = "l263"
    /\ CalPrint(Printed(<<"Input dst: ", " ">> \o arg[t].input_filename))
    /\ pc' = [pc EXCEPT ![t] = "l264"]
    /\ UNCHANGED <<arg, config, c_err, c_ret, config_conf, calls, status, n_clicks>>
    /\ calFrame

\* Line 264: print('Output map file: ', map_file_out)
Cal264(t) ==
    /\ pc[t] = "l264"
    /\ CalPrint(Printed(<<"Output map file: ", " ", "./map.h5">>))
    /\ pc' = [pc EXCEPT ![t] = "l265"]
    /\ UNCHANGED <<arg, config, c_err, c_ret, config_conf, calls, status, n_clicks>>
    /\ calFrame

\* Line 265: print('Output histograms file: ', histo_file_out)
Cal265(t) ==
    /\ pc[t] = "l265"
    /\ CalPrint(Printed(<<"Output histograms file: ", " ", "./histos.h5">>))
    /\ pc' = [pc EXCEPT ![t] = "l271"]
    /\ UNCHANGED <<arg, config, c_err, c_ret, config_conf, calls, status, n_clicks>>
    /\ calFrame

\* Line 271: print("START TIME", start_time)
Cal271(t) ==
    /\ pc[t] = "l271"
    /\ CalPrint(Printed(<<"START TIME", " ">> \o Str(arg[t].start_time)))
    /\ pc' = [pc EXCEPT ![t] = "l272"]
    /\ UNCHANGED <<arg, config, c_err, c_ret, config_conf, calls, status, n_clicks>>
    /\ calFrame

\* Line 272: open("config.conf", "w") truncates the file.
Cal272(t) ==
    /\ pc[t] = "l272"
    /\ config_conf' = <<>>
    /\ pc' = [pc EXCEPT ![t] = "l273"]
    /\ UNCHANGED <<arg, config, c_err, c_ret, calls, status, n_clicks>>
    /\ UNCHANGED <<logVars, pollVars>>
    /\ calFrame

\* Line 273: f.write(config), and the close that ends the with block: the
\* text goes to the start of the file, over what another writer left there.
Cal273(t) ==
    /\ pc[t] = "l273"
    /\ config_conf' = WrittenAtStart(config_conf, arg[t].config)
    /\ pc' = [pc EXCEPT ![t] = "l275"]
    /\ UNCHANGED <<arg, config, c_err, c_ret, calls, status, n_clicks>>
    /\ UNCHANGED <<logVars, pollVars>>
    /\ calFrame

\* Line 275: configure('maps config.conf'.split()) reads config.conf.
Cal275(t) ==
    /\ pc[t] = "l275"
    /\ IF Parses(config_conf)
       THEN /\ config' = [config EXCEPT ![t] = [NoConfig EXCEPT !.src = config_conf]]
            /\ pc' = [pc EXCEPT ![t] = "l276"]
       ELSE /\ pc' = [pc EXCEPT ![t] = "raised"]
            /\ UNCHANGED config
    /\ UNCHANGED <<arg, c_err, c_ret, config_conf, calls, status, n_clicks>>
    /\ UNCHANGED <<logVars, pollVars>>
    /\ calFrame

\* A window put in ascending order before it reaches the engine.
WindowSorted(s, e) == IF e < s THEN <<e, s>> ELSE <<s, e>>

\* Lines 280-283: time_start=start_timestamp, time_end=end_timestamp.
Window(s, e) == <<s, e>>

\* Lines 276-295: the two times are parsed and converted, config.update
\* takes them and the fixed parameters, and line 288 prints os.getcwd().
Cal276(t) ==
    /\ pc[t] = "l276"
    /\ IF IsDatetime(arg[t].start_time) /\ IsDatetime(arg[t].end_time)
       THEN \E s \in Mktime(tz, arg[t].start_time[2]), e \in Mktime(tz, arg[t].end_time[2]) :
                /\ config' = [config EXCEPT ![t] =
                                 [@ EXCEPT !.time_start = <<"ts", Window(s, e)[1]>>,
                                           !.time_end = <<"ts", Window(s, e)[2]>>,
                                           !.file_in = arg[t].input_filename]]
                /\ CalPrint(Printed(<<"cwd">>))
                /\ pc' = [pc EXCEPT ![t] = "l298"]
       ELSE /\ pc' = [pc EXCEPT ![t] = "raised"]
            /\ UNCHANGED <<config, logVars, pollVars>>
    /\ UNCHANGED <<arg, c_err, c_ret, config_conf, calls, status, n_clicks>>
    /\ calFrame

\* Line 298: map_builder(config.as_namespace) is called.
Cal298(t) ==
    /\ pc[t] = "l298"
    /\ calls' = calls + 1
    /\ pc' = [pc EXCEPT ![t] = "engine"]
    /\ UNCHANGED <<arg, config, c_err, c_ret, config_conf, status, n_clicks>>
    /\ UNCHANGED <<logVars, pollVars>>
    /\ calFrame

\* map_builder prints its progress while it runs.
EngineOut(t) ==
    /\ pc[t] = "engine"
    /\ CalPrint(Printed(<<"map_builder">>))
    /\ pc' = [pc EXCEPT ![t] = "engine2"]
    /\ UNCHANGED <<arg, config, c_err, c_ret, config_conf, calls, status, n_clicks>>
    /\ calFrame

\* map_builder's warnings go to sys.stderr.
EngineErr(t) ==
    /\ pc[t] = "engine"
    /\ my_stderr' = my_stderr \o Printed(<<"warning">>)
    /\ wrote' = TRUE
    /\ quiet' = 0
    /\ pc' = [pc EXCEPT ![t] = "engine2"]
    /\ UNCHANGED <<my_stdout, pollRest>>
    /\ UNCHANGED <<arg, config, c_err, c_ret, config_conf, calls, status, n_clicks>>
    /\ calFrame

\* An exception caught at lines 300-304; line 304 returns at once.
CalCatch(t, err) ==
    /\ c_err' = [c_err EXCEPT ![t] = err]
    /\ pc' = [pc EXCEPT ![t] = Handler(err.cls)]
    /\ c_ret' = [c_ret EXCEPT ![t] =
                    IF Handler(err.cls) = "ret304"
                    THEN CalReturnGenericError(err.text) ELSE @]

\* Line 298: map_builder returns.
EngineReturns(t) ==
    /\ pc[t] \in InEngine
    /\ pc' = [pc EXCEPT ![t] = "l299"]
    /\ UNCHANGED <<arg, config, c_err, c_ret, config_conf, calls, status, n_clicks>>
    /\ UNCHANGED <<logVars, pollVars>>
    /\ calFrame

\* Line 298: map_builder raises.
EngineRaises(t, err) ==
    /\ pc[t] \in InEngine
    /\ CalCatch(t, err)
    /\ UNCHANGED <<arg, config, config_conf, calls, status, n_clicks>>
    /\ UNCHANGED <<logVars, pollVars>>
    /\ calFrame

\* Lines 299-359: read_maps returns the maps, the figure is built from them.
ReadMapsReturns(t) ==
    /\ pc[t] = "l299"
    /\ c_ret' = [c_ret EXCEPT ![t] = CalReturnOk(MapFigure)]
    /\ pc' = [pc EXCEPT ![t] = "ret359"]
    /\ UNCHANGED <<arg, config, c_err, config_conf, calls, status, n_clicks>>
    /\ UNCHANGED <<logVars, pollVars>>
    /\ calFrame

\* Line 299: read_maps raises.
ReadMapsRaises(t, err) ==
    /\ pc[t] = "l299"
    /\ CalCatch(t, err)
    /\ UNCHANGED <<arg, config, config_conf, calls, status, n_clicks>>
    /\ UNCHANGED <<logVars, pollVars>>
    /\ calFrame

\* Lines 301-302: print(err, input_filename) and the return.
Cal301(t) ==
    /\ pc[t] = "l301"
    /\ CalPrint(Printed(c_err[t].text \o <<" ">> \o arg[t].input_filename))
    /\ c_ret' = [c_ret EXCEPT ![t] = CalReturnInputError(arg[t].input_filename)]
    /\ pc' = [pc EXCEPT ![t] = "ret302"]
    /\ UNCHANGED <<arg, config, c_err, config_conf, calls, status, n_clicks>>
    /\ calFrame

Returned == {"ret246", "ret302", "ret304", "ret359"}

\* The thread is free again.
CalDone(t) ==
    /\ pc' = [pc EXCEPT ![t] = "idle"]
    /\ arg' = [arg EXCEPT ![t] = NoArg]
    /\ config' = [config EXCEPT ![t] = NoConfig]
    /\ c_err' = [c_err EXCEPT ![t] = NoError]
    /\ c_ret' = [c_ret EXCEPT ![t] = None]

\* The framework takes the returned value: a value that is not one item per
\* declared Output is rejected (the request fails, like a raised exception,
\* and the client updates nothing); otherwise the client applies it.
CalResponse(t) ==
    /\ pc[t] \in Returned
    /\ IF Len(c_ret[t]) = NumCalibrateOutputs
       THEN /\ fnf_is_open' = Updated(fnf_is_open, c_ret[t][1])
            /\ fnf_children' = Updated(fnf_children, c_ret[t][2])
            /\ err_is_open' = Updated(err_is_open, c_ret[t][3])
            /\ err_children' = Updated(err_children, c_ret[t][4])
            /\ figure' = Updated(figure, c_ret[t][5])
       ELSE UNCHANGED alertVars
    /\ status' = IF pc[t] = "ret359" THEN "Done" ELSE "Error"
    /\ CalDone(t)
    /\ UNCHANGED <<config_conf, calls, n_clicks>>
    /\ UNCHANGED <<logVars, pollVars, timeVars, envVars, clearVars, loadVars>>

\* An exception left calibrate: the request fails, the client updates
\* nothing.
CalFailure(t) ==
    /\ pc[t] = "raised"
    /\ status' = "Error"
    /\ CalDone(t)
    /\ UNCHANGED <<config_conf, calls, n_clicks>>
    /\ UNCHANGED <<logVars, pollVars>>
    /\ calFrame

\* The steps of a request whose map_builder call prints nothing.
QuietStep(t) ==
    \/ Cal245(t)
    \/ Cal263(t)
    \/ Cal264(t)
    \/ Cal265(t)
    \/ Cal271(t)
    \/ Cal272(t)
    \/ Cal273(t)
    \/ Cal275(t)
    \/ Cal276(t)
    \/ Cal298(t)
    \/ EngineReturns(t)
    \/ \E err \in EngineErrors : EngineRaises(t, err)
    \/ ReadMapsReturns(t)
    \/ \E err \in EngineErrors : ReadMapsRaises(t, err)
    \/ Cal301(t)
    \/ CalResponse(t)
    \/ CalFailure(t)

CalStep(t) ==
    \/ QuietStep(t)
    \/ EngineOut(t)
    \/ EngineErr(t)

\* Requests served one at a time by the first thread, on every input.
calibrate ==
    \/ /\ n_clicks < MaxClicks
       /\ \E c \in ConfigTexts, path \in CalPaths, st \in TimeInputs, en \in TimeInputs :
              CalibrateClick(1, c, path, st, en)
    \/ CalStep(1)

\* Requests that overlap, one on each worker thread, on one dataset and one
\* time window, with an engine that prints nothing.
calibrate_overlap ==
    \/ /\ n_clicks < NumWorkers
       /\ \E t \in Workers, c \in ConfigTexts :
              CalibrateClick(t, c, <<"dst.h5">>, <<"dt", 1>>, <<"dt", 2>>)
    \/ \E t \in Workers : QuietStep(t)

\* One request on the first thread, on a configuration that parses and one
\* that does not, while the client polls the log.
calibrate_polled ==
    \/ /\ n_clicks = 0
       /\ \E c \in {<<"cfgA">>, <<"junk">>} :
              CalibrateClick(1, c, <<"dst.h5">>, <<"dt", 1>>, <<"dt", 2>>)
    \/ CalStep(1)

-----------------------------------------------------------------------------
(* The state after the module is loaded and the page is first served.      *)

Init ==
    /\ my_stdout = <<>>
    /\ my_stderr = <<>>
    /\ log = None
    /\ n_intervals = 0
    /\ ppc = "idle"
    /\ p_log = None
    /\ p_out = <<>>
    /\ p_ret = None
    /\ p_busy = FALSE
    /\ observed = <<>>
    /\ wrote = FALSE
    /\ quiet = 0
    /\ start_date_time = None
    /\ end_date_time = None
    /\ fnf_is_open = False
    /\ fnf_children = <<"File not found">>
    /\ err_is_open = False
    /\ err_children = <<"Error">>
    /\ figure = EmptyFigure
    /\ tz \in {"utc", "dst"}
    /\ icaro \in BOOLEAN
    /\ lpc = "idle"
    /\ l_path = None
    /\ l_times = <<>>
    /\ l_ret = None
    /\ n_loads = 0
    /\ pc = [t \in Workers |-> "idle"]
    /\ arg = [t \in Workers |-> NoArg]
    /\ config = [t \in Workers |-> NoConfig]
    /\ c_err = [t \in Workers |-> NoError]
    /\ c_ret = [t \in Workers |-> None]
    /\ config_conf = <<"previous run">>
    /\ calls = 0
    /\ status = "Idle"
    /\ n_clicks = 0
    /\ n_clears = 0

-----------------------------------------------------------------------------
(* The log sink and its poll handler alone.                                *)

NextLog ==
    \/ \E s \in Fragments : StdoutWrite(s)
    \/ \E s \in Fragments : StderrWrite(s)
    \/ update_metrics
    \/ ClearLog

SpecLog == Init /\ [][NextLog]_vars

(* The job trigger alone: one request at a time on every input, and        *)
(* overlapping requests on the worker threads.                             *)

NextCal == calibrate

SpecCal == Init /\ [][NextCal]_vars

NextRace == calibrate_overlap

SpecRace == Init /\ [][NextRace]_vars

(* The job trigger and the log poll together.  A thread that serves a poll *)
(* is scheduled again and again (the interpreter switches threads every    *)
(* few milliseconds); nothing is assumed of map_builder, which may never   *)
(* return.                                                                 *)

NextServe ==
    \/ calibrate_polled
    \/ update_metrics

SpecServe == Init /\ [][NextServe]_vars /\ WF_vars(PollProgress)

(* The dataset probe alone.                                                *)

NextLoad == load_times

SpecLoad == Init /\ [][NextLoad]_vars

(* Every handler of the page, one request in service at a time: a poll, a  *)
(* load, a calibrate call or a click on "Clear log" begins when no request *)
(* is in service.  calibrate is given one configuration and one window.    *)

Quiescent == ppc = "idle" /\ lpc = "idle" /\ \A t \in Workers : pc[t] = "idle"

page_requests ==
    /\ Quiescent
    /\ n_intervals + n_loads + n_clicks + n_clears < MaxRequests
    /\ \/ PollRequest
       \/ \E path \in Paths \ Datasets : LoadClick(path, <<>>)
       \/ \E path \in Datasets : LoadClick(path, <<0>>)
       \/ /\ n_clicks < MaxClicks
          /\ \E path \in CalPaths :
                 CalibrateClick(1, <<"cfgA">>, path, <<"dt", 1>>, <<"dt", 2>>)
       \/ ClearLog

NextPage ==
    \/ page_requests
    \/ PollProgress
    \/ LoadResponse
    \/ CalStep(1)

SpecPage == Init /\ [][NextPage]_vars

-----------------------------------------------------------------------------
(* Claims about the log sink and the poll handler.                         *)

\* C1: PollLog is idempotent: a poll that ends with no buffer write since
\* the previous poll began, and that received the text this previous poll
\* returned, returns that same text.
C1_PollIdempotent ==
    [][(ppc = "ret" /\ ppc' = "idle" /\ ~wrote /\ quiet >= 1) => log' = log]_vars

\* C2: the concatenation my_stdout + my_stderr a poll observes is a prefix
\* of the concatenation the next poll observes.
C2_ObservedPrefix == [][IsPrefix(observed, observed')]_vars

-----------------------------------------------------------------------------
(* Claims about the dataset probe.                                         *)

\* The request load_times is serving takes an error path: no path, no file,
\* a directory, an unreadable file, no DST group, no event.
LoadErrorPath == l_path \notin Datasets \/ l_times = <<>>

\* C9: on every error path of LoadFile the start-time and end-time fields
\* shown before the call are left as they were.
C9_ErrorKeepsTimes ==
    [][(lpc = "ret" /\ LoadErrorPath) => UNCHANGED <<start_date_time, end_date_time>>]_vars

\* C9 witness: a directory path was answered (only line 215 sets the alert's
\* children to False) and both fields, set by an earlier load, still are.
C9_Witness ==
    /\ lpc = "idle"
    /\ fnf_children = False
    /\ start_date_time # None
    /\ end_date_time # None

IsLeast(T, m) == (\E i \in 1..Len(T) : T[i] = m) /\ (\A i \in 1..Len(T) : m <= T[i])
IsGreatest(T, m) == (\E i \in 1..Len(T) : T[i] = m) /\ (\A i \in 1..Len(T) : T[i] <= m)

\* s is the local time of instant t at whole-second precision.
Shows(s, t) ==
    /\ Len(s) = 2
    /\ s[1] = "dt"
    /\ LET local == t + UtcOffset(tz, t \div TicksPerSecond) * TicksPerSecond
       IN  s[2] * TicksPerSecond <= local /\ local < (s[2] + 1) * TicksPerSecond

\* C10 as stated: the answer to a load of a non-empty T sets the fields to
\* min(T) and max(T) as formatted, and the shown start is not after the
\* shown end.
C10_Original ==
    [][(lpc = "ret" /\ ~LoadErrorPath) =>
           \E m, M \in 0..MaxTick :
               /\ IsLeast(l_times, m) /\ IsGreatest(l_times, M)
               /\ Shows(start_date_time', m) /\ Shows(end_date_time', M)
               /\ start_date_time'[2] <= end_date_time'[2]]_vars

\* C10 amended: the answer sets the fields to min(T) and max(T) as
\* formatted; the shown start is not after the shown end when the UTC
\* offset of local time at max(T) is not smaller than at min(T).
C10_ShowsMinMax ==
    [][(lpc = "ret" /\ ~LoadErrorPath) =>
           \E m, M \in 0..MaxTick :
               /\ IsLeast(l_times, m) /\ IsGreatest(l_times, M)
               /\ Shows(start_date_time', m) /\ Shows(end_date_time', M)
               /\ (UtcOffset(tz, m \div TicksPerSecond) <= UtcOffset(tz, M \div TicksPerSecond)
                      => start_date_time'[2] <= end_date_time'[2])]_vars

\* C10 witness: a load was answered and left a window of more than one
\* second, so the least and the greatest timestamp of its column differ.
C10_Witness ==
    /\ lpc = "idle"
    /\ start_date_time # None
    /\ end_date_time # None
    /\ start_date_time[2] < end_date_time[2]

-----------------------------------------------------------------------------
(* Claims about the job trigger.                                           *)

NoPath == {None, <<>>}

\* C3: calibrate with an empty or missing path returns the InputMissing
\* answer, and no step of that call invokes map_builder, writes config.conf
\* or prints.
C3_EmptyPathStops ==
    /\ [](\A t \in Workers :
             (pc[t] \notin {"idle", "l245"} /\ arg[t].input_filename \in NoPath)
                 => /\ pc[t] = "ret246"
                    /\ c_ret[t][1] = True
                    /\ c_ret[t][2] = <<"You need to specify an input file">>
                    /\ \A i \in 3..Len(c_ret[t]) : c_ret[t][i] = no_update)
    /\ [][\A t \in Workers :
             (pc[t] # "idle" /\ arg[t].input_filename \in NoPath)
                 => UNCHANGED <<calls, config_conf, my_stdout, my_stderr>>]_vars

\* C3 witness: a call with the empty path has returned.
C3_Witness ==
    \E t \in Workers :
        pc[t] = "ret246" /\ arg[t].input_filename = <<>> /\ calls = 0

\* C4: every calibrate call ends in one of the four declared outcomes: no
\* exception leaves the handler (in a process whose environment holds ICARO,
\* so that the failure is one of the request's inputs).
C4_DeclaredOutcome == icaro => \A t \in Workers : pc[t] # "raised"

\* C5: an exception of map_builder or read_maps never leaves calibrate; a
\* ValueError gives the input-error answer, whose message holds the dataset
\* path, any other exception the generic answer with the exception's text,
\* and neither answer carries a figure.
C5_EngineFailureConverted ==
    /\ [](\A t \in Workers :
             pc[t] \in {"l301", "ret302", "ret304"} =>
                 /\ c_err[t].cls = "ValueError" =>
                        /\ pc[t] \in {"l301", "ret302"}
                        /\ pc[t] = "ret302" =>
                               /\ c_ret[t][1] = True
                               /\ Contains(c_ret[t][2], arg[t].input_filename)
                               /\ c_ret[t][3] = False
                               /\ \A i \in 4..Len(c_ret[t]) : c_ret[t][i] = no_update
                 /\ c_err[t].cls # "ValueError" =>
                        /\ pc[t] = "ret304"
                        /\ c_ret[t][1] = False
                        /\ c_ret[t][3] = True
                        /\ c_ret[t][4] = c_err[t].text
                        /\ \A i \in 5..Len(c_ret[t]) : c_ret[t][i] = no_update)
    /\ [][\A t \in Workers :
             pc[t] \in InEngine \cup {"l299"} =>
                 pc'[t] \in InEngine \cup {"l299", "l301", "ret304", "ret359"}]_vars

\* C5 witness: a ValueError of the engine was answered.
C5_Witness ==
    \E t \in Workers :
        pc[t] = "ret302" /\ c_err[t] \in EngineErrors /\ c_err[t].cls = "ValueError"

\* C6: at most one call of map_builder is in flight.
C6_OneJobRunning == Cardinality({t \in Workers : pc[t] \in InEngine}) <= 1

\* C7: once no call is in service, a last call that succeeded left a figure
\* and no open error alert, and a last call that failed left an open error
\* alert and no figure.
C7_SessionShown ==
    (\A t \in Workers : pc[t] = "idle") =>
        /\ status = "Done" =>
               figure # EmptyFigure /\ fnf_is_open # True /\ err_is_open # True
        /\ status = "Error" =>
               (fnf_is_open = True \/ err_is_open = True) /\ figure = EmptyFigure

\* C8: a poll that arrives while map_builder runs is answered, whether or
\* not map_builder ever returns.
C8_PollNotDelayed == (ppc # "idle" /\ p_busy) ~> (ppc = "idle")

\* C8 witness: a poll that arrived during the call of map_builder has its
\* answer while that call is still running.
C8_Witness ==
    /\ p_busy
    /\ ppc = "ret"
    /\ \E t \in Workers : pc[t] \in InEngine

-----------------------------------------------------------------------------
(* Claims about the time window and the configuration snapshot.            *)

\* ts is an instant whose local time is the wall-clock second of field x.
ConvertedFrom(ts, x) ==
    /\ Len(ts) = 2
    /\ ts[1] = "ts"
    /\ ts[2] + UtcOffset(tz, ts[2]) = x[2]

\* C11: calibrate makes no ordering check: whatever the order of start and
\* end, the step that converts them goes on to the engine call, and the
\* configuration the engine holds carries time_start converted from the
\* start field and time_end converted from the end field.
C11_WindowAsGiven ==
    /\ [][\A t \in Workers :
             (pc[t] = "l276" /\ IsDatetime(arg[t].start_time) /\ IsDatetime(arg[t].end_time)
              /\ pc'[t] # "l276") => pc'[t] = "l298"]_vars
    /\ [](\A t \in Workers :
             pc[t] \in InEngine \cup {"l298"} =>
                 /\ ConvertedFrom(config[t].time_start, arg[t].start_time)
                 /\ ConvertedFrom(config[t].time_end, arg[t].end_time))

\* C11 witness: the engine runs on a window whose end is before its start.
C11_Witness ==
    /\ pc[1] \in InEngine
    /\ arg[1].end_time[2] < arg[1].start_time[2]
    /\ config[1].time_end[2] < config[1].time_start[2]

-----------------------------------------------------------------------------
(* Claims about the text a poll returns and the buffers behind it.         *)

\* C12: a poll that began after the writes to a channel (no write has come
\* since it began) returns, whatever text the client sent, a text that
\* contains the whole content of that channel's buffer as one run, in write
\* order: A written before B is immediately followed by B.
C12_OrderPreserved ==
    (ppc = "ret" /\ ~wrote) =>
        /\ Contains(p_ret, my_stdout)
        /\ Contains(p_ret, my_stderr)

\* C12 witness: two fragments were written to stdout, and the poll that
\* followed was sent a non-empty text that differs from the buffers.
C12_Witness ==
    /\ ppc = "ret"
    /\ ~wrote
    /\ Len(my_stdout) >= 2
    /\ my_stdout[1] # my_stdout[2]
    /\ Truthy(p_log)
    /\ p_log # Current(my_stdout, my_stderr)

\* C13: a click on "Clear log" leaves both server-side buffers as they were.
C13_ClearKeepsBuffers ==
    [][n_clears' # n_clears => UNCHANGED <<my_stdout, my_stderr>>]_vars

\* C13 witness: "Clear log" was clicked while both buffers held text, and
\* they still hold it.
C13_Witness ==
    /\ n_clears > 0
    /\ my_stdout # <<>>
    /\ my_stderr # <<>>

\* C14: with each poll's returned text fed back as the next client text,
\* every written fragment is shown exactly once: when no write has come
\* since the last poll began, the displayed text is as long as the two
\* buffers together.
C14_EachFragmentOnce ==
    (ppc = "idle" /\ Truthy(log) /\ ~wrote) =>
        Len(log) = Len(my_stdout) + Len(my_stderr)

\* C15: a load that ends in a failure shown to the user (a well-formed
\* answer that opens the file alert) has also written to a log buffer.
C15_FailureAlsoLogged ==
    [][(lpc = "idle" /\ lpc' = "ret"
        /\ Len(l_ret') = NumLoadOutputs /\ l_ret'[1] = True) =>
           Len(my_stdout') + Len(my_stderr') > Len(my_stdout) + Len(my_stderr)]_vars

C17_BuffersAppendOnly ==
    [][IsPrefix(my_stdout, my_stdout') /\ IsPrefix(my_stderr, my_stderr')]_vars

\* C17 witness: both buffers hold text after a load that printed, a
\* calibrate call whose engine wrote to stderr, a poll and a clear.
C17_Witness ==
    /\ Quiescent
    /\ n_loads > 0 /\ n_clicks > 0 /\ n_intervals > 0 /\ n_clears > 0
    /\ Contains(my_stdout, <<"missing.h5", " ", "not found">>)
    /\ Contains(my_stdout, <<"START TIME">>)
    /\ my_stderr # <<>>

-----------------------------------------------------------------------------
(* Claims about the values the handlers return.                            *)

\* C18: every value calibrate returns has one item per declared Output
\* (5), and every value load_times returns has one per declared Output (4).
C18_OneValuePerOutput ==
    /\ \A t \in Workers : pc[t] \in Returned => Len(c_ret[t]) = NumCalibrateOutputs
    /\ (lpc = "ret" /\ l_ret # Raised) => Len(l_ret) = NumLoadOutputs

-----------------------------------------------------------------------------
(* Claims about overlapping calibrate calls.                               *)

\* C19: the configuration a call hands to map_builder was parsed from the
\* text that same call submitted, also when two calls overlap.
C19_OwnConfiguration ==
    \A t \in Workers :
        pc[t] \in InEngine \cup {"l298"} => config[t].src = arg[t].config

=============================================================================
